---- MODULE Spec2Model ----
(***************************************************************************)
(* A model of xt's input module (src/src/input.rs): the CaptureReader that *)
(* snoops on and replays a non-seekable reader, the Handle that lends it   *)
(* out for format detection, and the owned Input handed to a format; of    *)
(* format detection and translate (src/src/lib.rs, src/src/yaml.rs); and   *)
(* of the Translator's output over several inputs.                         *)
(*                                                                         *)
(* Bytes are numbers.  The source reader holds the stream 1, 2, ..., n, so *)
(* that a missing, duplicated or reordered byte shows in any sequence      *)
(* built from it.                                                          *)
(***************************************************************************)
EXTENDS Integers, Sequences, FiniteSets, TLC

\* Longest source stream.
MaxData == 3
\* Largest caller buffer handed to read, and largest size asked of
\* capture_up_to_size / Ref::prefix is MaxData + 1.
MaxBuf == 3
\* How often the source may return 0 bytes although more bytes follow
\* (std::io::Read allows a reader to produce bytes after a 0-return).
MaxEofs == 1
\* How many reads of the source may fail.
MaxErrs == 1
\* How many refs a handle lends out.
MaxBorrows == 2
\* How many translate calls are made on one Translator.
MaxCalls == 2
\* How many documents one input holds.
MaxDocs == 2
\* How many writes to the output may fail.
MaxWriteErrs == 1

VARIABLES
    prefix,      \* CaptureReader.prefix : Cursor<Vec<u8>> as [vec, pos]
    source,      \* CaptureReader.source : the underlying reader
    source_eof,  \* CaptureReader.source_eof
    ret,         \* the latest call and what it returned
    obs,         \* bytes the caller obtained from Ok reads since the last rewind
    seen,        \* seen[i]: the byte the first pass to get that far obtained at offset i
    handle,      \* Handle(Source): Slice(b), Reader, or moved out
    ref,         \* the Ref lent out by the latest borrow_mut
    borrows,     \* number of borrow_mut calls so far
    input,       \* the owned Input made from the handle
    out,         \* bytes a format read from the owned Input
    tr,          \* Translator::translate: where it is, its from, the format chosen
    output,      \* Translator.0 : the Dispatcher and the writer it owns
    calls        \* the translate calls made on the Translator, in order

vars == <<prefix, source, source_eof, ret, obs, seen, handle, ref, borrows, input,
          out, tr, output, calls>>

Min(a, b) == IF a < b THEN a ELSE b

IsPrefix(s, t) == Len(s) <= Len(t) /\ s = SubSeq(t, 1, Len(s))

\* The first n bytes of the test stream.
DATA(n) == [i \in 1..n |-> i]

ErrorKinds == {"Interrupted", "Other"}

(***************************************************************************)
(* The underlying reader (Box<dyn Read>).  pos bytes of data have been     *)
(* delivered.  zero and everZero are history: zero says that the latest    *)
(* answer of the reader to a non-empty request at this position was a      *)
(* 0-return, everZero that some answer was.                                *)
(***************************************************************************)
NewSource(n) ==
    [data |-> DATA(n), pos |-> 0, eofs |-> MaxEofs, errs |-> MaxErrs,
     zero |-> FALSE, everZero |-> FALSE]

Remaining(s) == Len(s.data) - s.pos

\* A reader that never returned 0 early has not used its budget.
WellBehaved(s) == s.eofs = MaxEofs

\* source.read(buf) with a buffer of n bytes: every answer the reader may give.
SourceRead(s, n) ==
    IF n = 0
    THEN {[res |-> "Ok", kind |-> "", bytes |-> <<>>, source |-> s]}
    ELSE {[res |-> "Ok", kind |-> "",
           bytes |-> SubSeq(s.data, s.pos + 1, s.pos + k),
           source |-> [s EXCEPT !.pos = @ + k, !.zero = FALSE]]
            : k \in 1..Min(n, Remaining(s))}
         \cup
         (IF Remaining(s) = 0
          THEN {[res |-> "Ok", kind |-> "", bytes |-> <<>>,
                 source |-> [s EXCEPT !.zero = TRUE, !.everZero = TRUE]]}
          ELSE IF s.eofs > 0
          THEN {[res |-> "Ok", kind |-> "", bytes |-> <<>>,
                 source |-> [s EXCEPT !.eofs = @ - 1, !.zero = TRUE,
                                      !.everZero = TRUE]]}
          ELSE {})
         \cup
         (IF s.errs > 0
          THEN {[res |-> "Err", kind |-> k, bytes |-> <<>>,
                 source |-> [s EXCEPT !.errs = @ - 1]] : k \in ErrorKinds}
          ELSE {})

(***************************************************************************)
(* Read::read_to_end on the source, directly (capped = FALSE) or through   *)
(* Take (capped = TRUE, at most cap bytes): the reader is read until it    *)
(* returns 0, Interrupted errors are retried, any other error ends the     *)
(* call with the bytes read so far kept.  A Take whose limit reached 0     *)
(* returns 0 without reading the reader.  limit is Take::limit() after     *)
(* the call.                                                               *)
(***************************************************************************)
Drain(s, cap, capped) ==
    LET top == IF capped THEN Min(cap, Remaining(s)) ELSE Remaining(s)
        got(j) == SubSeq(s.data, s.pos + 1, s.pos + j)
        at(j, i) == [s EXCEPT !.pos = @ + j, !.errs = @ - i,
                              !.zero = IF j > 0 THEN FALSE ELSE @]
        full(j) == capped /\ j = cap
    IN UNION {
        (IF full(j)
         THEN {[res |-> "Ok", kind |-> "", bytes |-> got(j),
                source |-> at(j, i), limit |-> 0]}
         ELSE {})
        \cup
        (IF ~full(j) /\ j = Remaining(s)
         THEN {[res |-> "Ok", kind |-> "", bytes |-> got(j),
                source |-> [at(j, i) EXCEPT !.zero = TRUE, !.everZero = TRUE],
                limit |-> cap - j]}
         ELSE {})
        \cup
        (IF ~full(j) /\ j < Remaining(s) /\ s.eofs > 0
         THEN {[res |-> "Ok", kind |-> "", bytes |-> got(j),
                source |-> [at(j, i) EXCEPT !.eofs = @ - 1, !.zero = TRUE,
                                            !.everZero = TRUE],
                limit |-> cap - j]}
         ELSE {})
        \cup
        (IF ~full(j) /\ i < s.errs
         THEN {[res |-> "Err", kind |-> "Other", bytes |-> got(j),
                source |-> [at(j, i) EXCEPT !.errs = @ - 1],
                limit |-> cap - j]}
         ELSE {})
        : j \in 0..top, i \in 0..s.errs}

ReadToEnd(s) == Drain(s, 0, FALSE)

TakeReadToEnd(s, limit) == Drain(s, limit, TRUE)

(***************************************************************************)
(* Cursor<Vec<u8>>                                                         *)
(***************************************************************************)
NewCursor(v) == [vec |-> v, pos |-> 0]

\* Write::write_all on the cursor: overwrite from pos, growing the vector.
CursorWrite(c, bytes) ==
    [vec |-> SubSeq(c.vec, 1, c.pos) \o bytes
                \o SubSeq(c.vec, c.pos + Len(bytes) + 1, Len(c.vec)),
     pos |-> c.pos + Len(bytes)]

\* Read::read on the cursor with a buffer of n bytes.
CursorRead(c, n) ==
    LET k == Min(n, IF Len(c.vec) > c.pos THEN Len(c.vec) - c.pos ELSE 0)
    IN [bytes |-> SubSeq(c.vec, c.pos + 1, c.pos + k),
        cursor |-> [c EXCEPT !.pos = @ + k]]

(***************************************************************************)
(* CaptureReader.  Each operation takes the reader (self) and returns the  *)
(* set of its possible results, one per answer of the source:              *)
(* [self: the reader after the call, res, kind, bytes: what was returned]. *)
(***************************************************************************)
new(src) == [prefix |-> NewCursor(<<>>), source |-> src, source_eof |-> FALSE]

Result(self, res, kind, bytes) ==
    [self |-> self, res |-> res, kind |-> kind, bytes |-> bytes]

captured(self) == self.prefix.vec

captured_unread_size(self) == Len(self.prefix.vec) - self.prefix.pos

\* A rewind that clears the capture instead of keeping it.
rewind_truncating(self) == [self EXCEPT !.prefix = NewCursor(<<>>)]

\* A rewind that also forgets that the source was at EOF.
rewind_clearing_eof(self) ==
    [self EXCEPT !.prefix.pos = 0, !.source_eof = FALSE]

rewind(self) == [self EXCEPT !.prefix.pos = 0]

\* capture_to_end that drains the source whatever source_eof says.
capture_to_end_unguarded(self) ==
    {LET s1 == [self EXCEPT !.prefix.vec = @ \o o.bytes, !.source = o.source]
     IN IF o.res = "Err"
        THEN Result(s1, "Err", o.kind, <<>>)
        ELSE Result([s1 EXCEPT !.source_eof = TRUE], "Ok", "", <<>>)
       : o \in ReadToEnd(self.source)}

capture_to_end(self) ==
    IF ~self.source_eof
    THEN {LET s1 == [self EXCEPT !.prefix.vec = @ \o o.bytes,
                                 !.source = o.source]
          IN IF o.res = "Err"
             THEN Result(s1, "Err", o.kind, <<>>)
             ELSE Result([s1 EXCEPT !.source_eof = TRUE], "Ok", "", <<>>)
            : o \in ReadToEnd(self.source)}
    ELSE {Result(self, "Ok", "", <<>>)}

\* capture_up_to_size that takes every completed call for an EOF.
capture_up_to_size_always_eof(self, size) ==
    LET have == Len(self.prefix.vec)
        needed == IF size > have THEN size - have ELSE 0
    IN IF needed = 0
       THEN {Result(self, "Ok", "", <<>>)}
       ELSE {LET s1 == [self EXCEPT !.prefix.vec = @ \o o.bytes,
                                    !.source = o.source]
             IN IF o.res = "Err"
                THEN Result(s1, "Err", o.kind, <<>>)
                ELSE Result([s1 EXCEPT !.source_eof = TRUE], "Ok", "", <<>>)
               : o \in TakeReadToEnd(self.source, needed)}

\* capture_up_to_size that reads the source without the Take.
capture_up_to_size_untaken(self, size) ==
    LET have == Len(self.prefix.vec)
        needed == IF size > have THEN size - have ELSE 0
    IN IF needed = 0
       THEN {Result(self, "Ok", "", <<>>)}
       ELSE {LET s1 == [self EXCEPT !.prefix.vec = @ \o o.bytes,
                                    !.source = o.source]
             IN IF o.res = "Err"
                THEN Result(s1, "Err", o.kind, <<>>)
                ELSE IF Len(o.bytes) < needed
                THEN Result([s1 EXCEPT !.source_eof = TRUE], "Ok", "", <<>>)
                ELSE Result(s1, "Ok", "", <<>>)
               : o \in ReadToEnd(self.source)}

capture_up_to_size(self, size) ==
    LET have == Len(self.prefix.vec)
        needed == IF size > have THEN size - have ELSE 0
    IN IF needed = 0
       THEN {Result(self, "Ok", "", <<>>)}
       ELSE {LET s1 == [self EXCEPT !.prefix.vec = @ \o o.bytes,
                                    !.source = o.source]
             IN IF o.res = "Err"
                THEN Result(s1, "Err", o.kind, <<>>)
                ELSE IF o.limit > 0
                THEN Result([s1 EXCEPT !.source_eof = TRUE], "Ok", "", <<>>)
                ELSE Result(s1, "Ok", "", <<>>)
               : o \in TakeReadToEnd(self.source, needed)}

is_source_eof(self) == self.source_eof

\* read that captures the head of the caller's buffer, not the part the
\* source wrote.
read_capturing_head(self, n) ==
    LET prefix_size == Min(n, captured_unread_size(self))
        head == SubSeq(self.prefix.vec, self.prefix.pos + 1,
                       self.prefix.pos + prefix_size)
        s1 == [self EXCEPT !.prefix.pos = @ + prefix_size]
    IN IF captured_unread_size(s1) > 0 \/ prefix_size = n
       THEN {Result(s1, "Ok", "", head)}
       ELSE {IF o.res = "Err"
             THEN Result([s1 EXCEPT !.source = o.source], "Err", o.kind, <<>>)
             ELSE LET buf == head \o o.bytes
                      source_size == Len(o.bytes)
                      fresh == SubSeq(buf, 1, source_size)
                  IN Result([s1 EXCEPT !.prefix = CursorWrite(@, fresh),
                                       !.source = o.source,
                                       !.source_eof = (source_size = 0)],
                            "Ok", "", buf)
               : o \in SourceRead(self.source, n - prefix_size)}

\* read that goes on to the source whenever no captured byte is left unread.
read_unless_captured_unread(self, n) ==
    LET prefix_size == Min(n, captured_unread_size(self))
        head == SubSeq(self.prefix.vec, self.prefix.pos + 1, self.prefix.pos + prefix_size)
        s1 == [self EXCEPT !.prefix.pos = @ + prefix_size]
    IN IF captured_unread_size(s1) > 0
       THEN {Result(s1, "Ok", "", head)}
       ELSE {IF o.res = "Err"
             THEN Result([s1 EXCEPT !.source = o.source], "Err", o.kind, <<>>)
             ELSE LET buf == head \o o.bytes
                      source_size == Len(o.bytes)
                      fresh == SubSeq(buf, prefix_size + 1, prefix_size + source_size)
                  IN Result([s1 EXCEPT !.prefix = CursorWrite(@, fresh),
                                       !.source = o.source,
                                       !.source_eof = (source_size = 0)], "Ok", "", buf)
               : o \in SourceRead(self.source, n - prefix_size)}

\* A read that copies at most one captured byte before it turns to the
\* source.
read_past_short_replay(self, n) ==
    LET prefix_size == Min(Min(n, 1), captured_unread_size(self))
        head == SubSeq(self.prefix.vec, self.prefix.pos + 1,
                       self.prefix.pos + prefix_size)
        s1 == [self EXCEPT !.prefix.pos = @ + prefix_size]
    IN IF prefix_size = n
       THEN {Result(s1, "Ok", "", head)}
       ELSE {IF o.res = "Err"
             THEN Result([s1 EXCEPT !.source = o.source], "Err", o.kind, <<>>)
             ELSE LET buf == head \o o.bytes
                      source_size == Len(o.bytes)
                      fresh == SubSeq(buf, prefix_size + 1,
                                      prefix_size + source_size)
                  IN Result([s1 EXCEPT !.prefix = CursorWrite(@, fresh),
                                       !.source = o.source,
                                       !.source_eof = (source_size = 0)],
                            "Ok", "", buf)
               : o \in SourceRead(self.source, n - prefix_size)}

read(self, n) ==
    LET prefix_size == Min(n, captured_unread_size(self))
        head == SubSeq(self.prefix.vec, self.prefix.pos + 1,
                       self.prefix.pos + prefix_size)
        s1 == [self EXCEPT !.prefix.pos = @ + prefix_size]
    IN IF captured_unread_size(s1) > 0 \/ prefix_size = n
       THEN {Result(s1, "Ok", "", head)}
       ELSE {IF o.res = "Err"
             THEN Result([s1 EXCEPT !.source = o.source], "Err", o.kind, <<>>)
             ELSE LET buf == head \o o.bytes
                      source_size == Len(o.bytes)
                      fresh == SubSeq(buf, prefix_size + 1,
                                      prefix_size + source_size)
                  IN Result([s1 EXCEPT !.prefix = CursorWrite(@, fresh),
                                       !.source = o.source,
                                       !.source_eof = (source_size = 0)],
                            "Ok", "", buf)
               : o \in SourceRead(self.source, n - prefix_size)}

(***************************************************************************)
(* The CaptureReader driven directly, as the unit tests drive it.          *)
(***************************************************************************)
Self == [prefix |-> prefix, source |-> source, source_eof |-> source_eof]

Call(op, arg, res, kind, bytes) ==
    [op |-> op, arg |-> arg, res |-> res, kind |-> kind, bytes |-> bytes]

NoInput == [kind |-> "None", b |-> <<>>, reader |-> "", fused |-> FALSE,
            cursor |-> NewCursor(<<>>), done_first |-> FALSE]

NoRef == [kind |-> "None", b |-> <<>>, reads |-> 0]

NoHandle == [kind |-> "None", b |-> <<>>, moved |-> FALSE]

NoChunk == [tag |-> "", collection |-> FALSE, kind |-> ""]

\* No translate call is in progress.  called and answers list the probes
\* Format::detect invoked and what each returned; chunk is what the latest
\* probe's parse of a first document came to, malformed the formats whose
\* probe's parse failed with InvalidData.
NoTranslate == [pc |-> "idle", from |-> "None", format |-> "None", probe |-> 0,
                err |-> "", called |-> <<>>, answers |-> <<>>, chunk |-> NoChunk,
                malformed |-> {}, path |-> ""]

\* No Translator is in use.
NoOutput == [to |-> "None", sink |-> "None", w |-> <<>>, used |-> FALSE, werrs |-> 0]

Commit(r) ==
    /\ prefix' = r.self.prefix
    /\ source' = r.self.source
    /\ source_eof' = r.self.source_eof

\* The caller obtains bytes from a read of the current pass.
Observe(bytes) ==
    /\ obs' = obs \o bytes
    /\ seen' = IF Len(obs \o bytes) > Len(seen)
               THEN seen \o SubSeq(obs \o bytes, Len(seen) + 1, Len(obs \o bytes))
               ELSE seen

InitCapture ==
    /\ \E n \in 0..MaxData :
        LET r == new(NewSource(n))
        IN /\ prefix = r.prefix
           /\ source = r.source
           /\ source_eof = r.source_eof
    /\ ret = Call("new", 0, "Ok", "", <<>>)
    /\ obs = <<>>
    /\ seen = <<>>
    /\ handle = NoHandle
    /\ ref = NoRef
    /\ borrows = 0
    /\ input = NoInput
    /\ out = <<>>
    /\ tr = NoTranslate
    /\ output = NoOutput
    /\ calls = <<>>

HandleUnused == UNCHANGED <<handle, ref, borrows, input, out, tr, output, calls>>

Read ==
    \E n \in 0..MaxBuf : \E r \in read(Self, n) :
        /\ Commit(r)
        /\ ret' = Call("read", n, r.res, r.kind, r.bytes)
        /\ Observe(r.bytes)
        /\ HandleUnused

Rewind ==
    /\ Commit(Result(rewind(Self), "Ok", "", <<>>))
    /\ ret' = Call("rewind", 0, "Ok", "", <<>>)
    /\ obs' = <<>>
    /\ UNCHANGED seen
    /\ HandleUnused

CaptureToEnd ==
    \E r \in capture_to_end(Self) :
        /\ Commit(r)
        /\ ret' = Call("capture_to_end", 0, r.res, r.kind, <<>>)
        /\ UNCHANGED <<obs, seen>>
        /\ HandleUnused

CaptureUpToSize ==
    \E size \in 0..(MaxData + 1) : \E r \in capture_up_to_size(Self, size) :
        /\ Commit(r)
        /\ ret' = Call("capture_up_to_size", size, r.res, r.kind, <<>>)
        /\ UNCHANGED <<obs, seen>>
        /\ HandleUnused

NextCapture ==
    \/ Read
    \/ Rewind
    \/ CaptureToEnd
    \/ CaptureUpToSize

SpecCapture == InitCapture /\ [][NextCapture]_vars

(***************************************************************************)
(* GuardedCaptureReader, Handle, Ref, Input, FusedReader.                  *)
(***************************************************************************)
\* A guard that lends the reader out as it is.
rewind_and_borrow_mut_unrewound(self) == self

rewind_and_borrow_mut(self) == rewind(self)

\* A guard that gives the reader away as it is.
rewind_and_take_unrewound(self) == self

rewind_and_take(self) == rewind(self)

from_slice(b) == [kind |-> "Slice", b |-> b, moved |-> FALSE]

from_reader == [kind |-> "Reader", b |-> <<>>, moved |-> FALSE]

SliceRef(b) == [kind |-> "Slice", b |-> b, reads |-> 0]

ReaderRef == [kind |-> "Reader", b |-> <<>>, reads |-> 0]

\* A borrow_mut that lends the reader out whether or not its source is at EOF.
borrow_mut_never_slice(h, self) ==
    IF h.kind = "Slice"
    THEN [self |-> self, ref |-> SliceRef(h.b)]
    ELSE [self |-> rewind_and_borrow_mut(self), ref |-> ReaderRef]

\* Handle::borrow_mut: the reader after the call and the Ref returned.
borrow_mut(h, self) ==
    IF h.kind = "Slice"
    THEN [self |-> self, ref |-> SliceRef(h.b)]
    ELSE LET r == rewind_and_borrow_mut(self)
         IN IF is_source_eof(r)
            THEN [self |-> r, ref |-> SliceRef(captured(r))]
            ELSE [self |-> r, ref |-> ReaderRef]

\* Ref::prefix: the results, each returning the prefix in bytes.
Ref_prefix(rf, self, size_hint) ==
    IF rf.kind = "Slice"
    THEN {Result(self, "Ok", "", rf.b)}
    ELSE {IF c.res = "Err" THEN c ELSE Result(c.self, "Ok", "", captured(c.self))
            : c \in capture_up_to_size(self, size_hint)}

\* A conversion to a slice that returns what happens to be captured.
try_from_captured_only(h, self) ==
    IF h.kind = "Slice"
    THEN {Result(self, "Ok", "", h.b)}
    ELSE {Result(rewind_and_take(self), "Ok", "", captured(self))}

\* TryFrom<Handle> for Cow<[u8]>: the results, each returning the slice in bytes.
try_from(h, self) ==
    IF h.kind = "Slice"
    THEN {Result(self, "Ok", "", h.b)}
    ELSE LET r == rewind_and_take(self)
         IN {IF c.res = "Err" THEN c
             ELSE Result(c.self, "Ok", "", c.self.prefix.vec)
               : c \in capture_to_end(r)}

\* Input::Slice(b)
SliceInput(b) == [kind |-> "Slice", b |-> b, reader |-> "", fused |-> FALSE,
                  cursor |-> NewCursor(<<>>), done_first |-> FALSE]

\* Input::Reader(source)
SourceInput == [kind |-> "Reader", b |-> <<>>, reader |-> "source",
                fused |-> FALSE, cursor |-> NewCursor(<<>>),
                done_first |-> FALSE]

\* Input::Reader(FusedReader::new(cursor).chain(source))
ChainInput(cursor) == [kind |-> "Reader", b |-> <<>>, reader |-> "chain",
                       fused |-> TRUE, cursor |-> cursor, done_first |-> FALSE]

\* A conversion that keeps the capture in front of the source in every case.
from_always_chained(h, self) ==
    IF h.kind = "Slice"
    THEN [self |-> self, input |-> SliceInput(h.b)]
    ELSE LET r == rewind_and_take(self)
         IN [self |-> r, input |-> ChainInput(r.prefix)]

\* From<Handle> for Input: the reader state after the call and the Input.
from(h, self) ==
    IF h.kind = "Slice"
    THEN [self |-> self, input |-> SliceInput(h.b)]
    ELSE LET r == rewind_and_take(self)
             eof == is_source_eof(r)
             cursor == r.prefix
         IN IF eof
            THEN [self |-> r, input |-> SliceInput(cursor.vec)]
            ELSE IF Len(cursor.vec) = 0
            THEN [self |-> r, input |-> SourceInput]
            ELSE [self |-> r, input |-> ChainInput(cursor)]

\* A first half that keeps its cursor when it has returned 0.
FusedReader_read_keeping(inp, n) ==
    IF ~inp.fused
    THEN [input |-> inp, bytes |-> <<>>]
    ELSE LET c == CursorRead(inp.cursor, n)
         IN [input |-> [inp EXCEPT !.cursor = c.cursor], bytes |-> c.bytes]

\* FusedReader::read on the Input's first half, with a buffer of n bytes.
FusedReader_read(inp, n) ==
    IF ~inp.fused
    THEN [input |-> inp, bytes |-> <<>>]
    ELSE LET c == CursorRead(inp.cursor, n)
         IN IF Len(c.bytes) = 0 /\ n # 0
            THEN [input |-> [inp EXCEPT !.fused = FALSE,
                                        !.cursor = NewCursor(<<>>)],
                  bytes |-> <<>>]
            ELSE [input |-> [inp EXCEPT !.cursor = c.cursor], bytes |-> c.bytes]

\* Chain::read: the first reader until it returns 0, then the second.
Chain_read(inp, src, n) ==
    LET f == IF inp.done_first THEN [input |-> inp, bytes |-> <<>>]
             ELSE FusedReader_read(inp, n)
    IN IF ~inp.done_first /\ ~(Len(f.bytes) = 0 /\ n # 0)
       THEN {[input |-> f.input, source |-> src, res |-> "Ok", kind |-> "",
              bytes |-> f.bytes]}
       ELSE {[input |-> [f.input EXCEPT !.done_first = TRUE],
              source |-> o.source, res |-> o.res, kind |-> o.kind,
              bytes |-> o.bytes] : o \in SourceRead(src, n)}

\* Read::read on an Input::Reader.
Input_read(inp, src, n) ==
    IF inp.reader = "chain"
    THEN Chain_read(inp, src, n)
    ELSE {[input |-> inp, source |-> o.source, res |-> o.res, kind |-> o.kind,
           bytes |-> o.bytes] : o \in SourceRead(src, n)}

(***************************************************************************)
(* A Handle in use: refs are borrowed and read one after the other, each   *)
(* dropped or forgotten when the next is borrowed (no code runs then), and *)
(* at last the handle is converted to a slice or to an owned Input, which  *)
(* a format reads.                                                         *)
(***************************************************************************)
InitHandle ==
    /\ \E n \in 0..MaxData :
        \/ /\ handle = from_slice(DATA(n))
           /\ source = NewSource(0)
        \/ /\ handle = from_reader
           /\ source = NewSource(n)
    /\ prefix = new(source).prefix
    /\ source_eof = new(source).source_eof
    /\ ret = Call("new", 0, "Ok", "", <<>>)
    /\ obs = <<>>
    /\ seen = <<>>
    /\ ref = NoRef
    /\ borrows = 0
    /\ input = NoInput
    /\ out = <<>>
    /\ tr = NoTranslate
    /\ output = NoOutput
    /\ calls = <<>>

BorrowMut ==
    /\ ~handle.moved
    /\ borrows < MaxBorrows
    /\ LET r == borrow_mut(handle, Self)
       IN /\ Commit(r)
          /\ ref' = r.ref
          /\ ret' = Call("borrow_mut", 0, "Ok", "", r.ref.b)
    /\ borrows' = borrows + 1
    /\ obs' = <<>>
    /\ UNCHANGED <<output, calls, seen, handle, input, out, tr>>

RefRead ==
    /\ ~handle.moved
    /\ ref.kind = "Reader"
    /\ \E n \in 0..MaxBuf : \E r \in read(Self, n) :
        /\ Commit(r)
        /\ ret' = Call("read", n, r.res, r.kind, r.bytes)
        /\ Observe(r.bytes)
    /\ ref' = [ref EXCEPT !.reads = Min(@ + 1, 2)]
    /\ UNCHANGED <<output, calls, handle, borrows, input, out, tr>>

RefPrefix ==
    /\ ~handle.moved
    /\ ref.kind # "None"
    /\ \E size_hint \in 0..(MaxData + 1) :
        \E r \in Ref_prefix(ref, Self, size_hint) :
            /\ Commit(r)
            /\ ret' = Call("prefix", size_hint, r.res, r.kind, r.bytes)
    /\ UNCHANGED <<output, calls, obs, seen, handle, ref, borrows, input, out, tr>>

IntoCow ==
    /\ ~handle.moved
    /\ \E r \in try_from(handle, Self) :
        /\ Commit(r)
        /\ ret' = Call("try_from", 0, r.res, r.kind, r.bytes)
    /\ handle' = [handle EXCEPT !.moved = TRUE]
    /\ ref' = NoRef
    /\ UNCHANGED <<output, calls, obs, seen, borrows, input, out, tr>>

IntoInput ==
    /\ ~handle.moved
    /\ LET r == from(handle, Self)
       IN /\ Commit(r)
          /\ input' = r.input
          /\ out' = r.input.b
          /\ ret' = Call("from", 0, "Ok", "", r.input.b)
    /\ handle' = [handle EXCEPT !.moved = TRUE]
    /\ ref' = NoRef
    /\ UNCHANGED <<output, calls, obs, seen, borrows, tr>>

InputRead ==
    /\ input.kind = "Reader"
    /\ \E n \in 0..MaxBuf : \E r \in Input_read(input, source, n) :
        /\ input' = r.input
        /\ source' = r.source
        /\ ret' = Call("input_read", n, r.res, r.kind, r.bytes)
        /\ out' = out \o r.bytes
    /\ UNCHANGED <<output, calls, prefix, source_eof, obs, seen, handle, ref, borrows, tr>>

NextHandle ==
    \/ BorrowMut
    \/ RefRead
    \/ RefPrefix
    \/ IntoCow
    \/ IntoInput
    \/ InputRead

SpecHandle == InitHandle /\ [][NextHandle]_vars

(***************************************************************************)
(* A FusedReader on its own, over any inner reader R: Read.  input.fused   *)
(* says whether self.0 is Some, and source is the inner reader, which may  *)
(* deliver short reads, fail, and return 0 before its end.                 *)
(***************************************************************************)
\* FusedReader::new(r)
FusedReader_new ==
    [kind |-> "Reader", b |-> <<>>, reader |-> "fused", fused |-> TRUE,
     cursor |-> NewCursor(<<>>), done_first |-> FALSE]

Fused(fused, o) ==
    [fused |-> fused, source |-> o.source, res |-> o.res, kind |-> o.kind,
     bytes |-> o.bytes]

\* FusedReader::read that drops the inner reader at any 0-return.
FusedReader_read_dropping_on_empty(fused, inner, n) ==
    IF ~fused
    THEN {Fused(FALSE, [source |-> inner, res |-> "Ok", kind |-> "", bytes |-> <<>>])}
    ELSE {IF o.res = "Err" THEN Fused(TRUE, o)
          ELSE Fused(~(Len(o.bytes) = 0), o)
            : o \in SourceRead(inner, n)}

\* FusedReader::read with a buffer of n bytes over the inner reader.
FusedReader_read_inner(fused, inner, n) ==
    IF ~fused
    THEN {Fused(FALSE, [source |-> inner, res |-> "Ok", kind |-> "", bytes |-> <<>>])}
    ELSE {IF o.res = "Err" THEN Fused(TRUE, o)
          ELSE Fused(~(Len(o.bytes) = 0 /\ n # 0), o)
            : o \in SourceRead(inner, n)}

InitFused ==
    /\ \E n \in 0..MaxData : source = NewSource(n)
    /\ prefix = NewCursor(<<>>)
    /\ source_eof = FALSE
    /\ ret = Call("new", 0, "Ok", "", <<>>)
    /\ obs = <<>>
    /\ seen = <<>>
    /\ handle = NoHandle
    /\ ref = NoRef
    /\ borrows = 0
    /\ input = FusedReader_new
    /\ out = <<>>
    /\ tr = NoTranslate
    /\ output = NoOutput
    /\ calls = <<>>

FusedRead ==
    /\ \E n \in 0..MaxBuf : \E r \in FusedReader_read_inner(input.fused, source, n) :
        /\ input' = [input EXCEPT !.fused = r.fused]
        /\ source' = r.source
        /\ ret' = Call("fused_read", n, r.res, r.kind, r.bytes)
        /\ out' = out \o r.bytes
    /\ UNCHANGED <<prefix, source_eof, obs, seen, handle, ref, borrows, tr,
                   output, calls>>

NextFused == FusedRead

SpecFused == InitFused /\ [][NextFused]_vars

\* C21: while a FusedReader holds its inner reader, a read is the inner
\* reader's read: the same result and the inner reader advanced by it.  The
\* inner reader is dropped by exactly the reads that get 0 bytes from it for
\* a non-empty buffer, which return 0; a zero-length read and a failed read
\* keep it.  Once it is dropped, every read returns 0 and no reader is read.
C21_FusedReader ==
    [][ret'.op = "fused_read" =>
        LET n == ret'.arg
        IN /\ input.fused =>
                /\ \E o \in SourceRead(source, n) :
                        /\ source' = o.source
                        /\ ret' = Call("fused_read", n, o.res, o.kind, o.bytes)
                /\ input'.fused = ~(ret'.res = "Ok" /\ ret'.bytes = <<>> /\ n # 0)
                /\ (n = 0 \/ ret'.res = "Err") => input'.fused
           /\ ~input.fused =>
                /\ ret' = Call("fused_read", n, "Ok", "", <<>>)
                /\ source' = source
                /\ ~input'.fused]_vars

\* The inner reader returned 0 before its end and was dropped; a later read
\* returned 0 with bytes of the inner reader undelivered.
C21_Witness ==
    /\ ~input.fused
    /\ input.reader = "fused"
    /\ ret = Call("fused_read", MaxBuf, "Ok", "", <<>>)
    /\ Remaining(source) > 0
    /\ Len(out) > 0
    /\ source.errs < MaxErrs

(***************************************************************************)
(* Translator::translate (src/src/lib.rs) on one input: detection when     *)
(* from is None, then the format's transcode, which takes the handle.      *)
(* What a probe reads of its Ref and what it answers depend on the input's *)
(* content; here a probe is any use of the Ref followed by any answer.     *)
(***************************************************************************)
\* The formats in the order Format::detect tries them.
Formats == <<"Msgpack", "Json", "Yaml", "Toml">>

\* The formats whose transcode must consume the input as a slice.
SliceOnlyFormats == {"Toml"}

\* Encoding::DETECT_LEN, the bytes yaml::input_matches asks of Ref::prefix.
DETECT_LEN == 4

\* What a probe returns: io::Result<bool>.
Matches(val) == [res |-> "Ok", val |-> val, kind |-> ""]
ProbeErr(kind) == [res |-> "Err", val |-> FALSE, kind |-> kind]

\* What parsing a first document comes to: a document that is or is not a
\* collection, no document, or an error of some kind.
Doc(collection) == [tag |-> "doc", collection |-> collection, kind |-> ""]
NoDoc == [tag |-> "none", collection |-> FALSE, kind |-> ""]
ChunkErr(kind) == [tag |-> "err", collection |-> FALSE, kind |-> kind]

\* The outcomes open to a probe after the latest call on its Ref: malformed
\* data is InvalidData; an error of the reader is passed on with its kind.
Chunks(last) ==
    {Doc(c) : c \in BOOLEAN} \cup {NoDoc, ChunkErr("InvalidData")}
    \cup (IF last.res = "Err" THEN {ChunkErr(last.kind)} ELSE {})

yaml_input_matches_strict(chunk) ==
    IF chunk.tag = "doc" THEN Matches(chunk.collection)
    ELSE IF chunk.tag = "err" THEN ProbeErr(chunk.kind)
    ELSE Matches(FALSE)

yaml_input_matches_any_document(chunk) ==
    IF chunk.tag = "doc" THEN Matches(TRUE)
    ELSE IF chunk.tag = "err" /\ chunk.kind = "InvalidData" THEN Matches(FALSE)
    ELSE IF chunk.tag = "err" THEN ProbeErr(chunk.kind)
    ELSE Matches(FALSE)

\* yaml::input_matches once the prefix is taken: the match on the first chunk.
yaml_input_matches(chunk) ==
    IF chunk.tag = "doc" THEN Matches(chunk.collection)
    ELSE IF chunk.tag = "err" /\ chunk.kind = "InvalidData" THEN Matches(FALSE)
    ELSE IF chunk.tag = "err" THEN ProbeErr(chunk.kind)
    ELSE Matches(FALSE)

\* The msgpack, json and toml probes: a parsed first document matches (for
\* msgpack, a collection), malformed data does not, another error is passed on.
other_input_matches(format, chunk) ==
    IF chunk.tag = "doc"
    THEN Matches(IF format = "Msgpack" THEN chunk.collection ELSE TRUE)
    ELSE IF chunk.tag = "err" /\ chunk.kind = "InvalidData" THEN Matches(FALSE)
    ELSE IF chunk.tag = "err" THEN ProbeErr(chunk.kind)
    ELSE Matches(FALSE)

translate_always_detecting(t) ==
    [t EXCEPT !.pc = "detect", !.probe = 1]

\* translate's first match: the given format, or detection from the first probe.
translate(t) ==
    IF t.from # "None"
    THEN [t EXCEPT !.pc = "transcode", !.format = t.from]
    ELSE [t EXCEPT !.pc = "detect", !.probe = 1]

detect_last_match(t, m) ==
    LET t1 == [t EXCEPT !.answers = Append(@, m)]
    IN IF m.res = "Err"
       THEN [t1 EXCEPT !.pc = "failed", !.err = m.kind]
       ELSE IF t.probe < Len(Formats)
       THEN [t1 EXCEPT !.pc = "detect", !.probe = @ + 1,
                       !.format = IF m.val THEN Formats[t.probe] ELSE @]
       ELSE IF m.val \/ t.format # "None"
       THEN [t1 EXCEPT !.pc = "transcode",
                       !.format = IF m.val THEN Formats[t.probe] ELSE @]
       ELSE [t1 EXCEPT !.pc = "failed", !.err = "unable to detect input format"]

\* Format::detect after probe t.probe returned m, and translate's match on
\* what detect returns: an error, a format, or none.
detect(t, m) ==
    LET t1 == [t EXCEPT !.answers = Append(@, m)]
    IN IF m.res = "Err"
       THEN [t1 EXCEPT !.pc = "failed", !.err = m.kind]
       ELSE IF m.val
       THEN [t1 EXCEPT !.pc = "transcode", !.format = Formats[t.probe]]
       ELSE IF t.probe < Len(Formats)
       THEN [t1 EXCEPT !.pc = "detect", !.probe = @ + 1]
       ELSE [t1 EXCEPT !.pc = "failed", !.err = "unable to detect input format"]

InitTranslate ==
    /\ \E n \in 0..MaxData :
        \/ /\ handle = from_slice(DATA(n))
           /\ source = NewSource(0)
        \/ /\ handle = from_reader
           /\ source = NewSource(n)
    /\ prefix = new(source).prefix
    /\ source_eof = new(source).source_eof
    /\ ret = Call("new", 0, "Ok", "", <<>>)
    /\ obs = <<>>
    /\ seen = <<>>
    /\ ref = NoRef
    /\ borrows = 0
    /\ input = NoInput
    /\ out = <<>>
    /\ \E f \in {"None"} \cup {Formats[i] : i \in 1..Len(Formats)} :
        tr = [NoTranslate EXCEPT !.pc = "translate", !.from = f]
    /\ output = NoOutput
    /\ calls = <<>>

Translate ==
    /\ tr.pc = "translate"
    /\ tr' = translate(tr)
    /\ ret' = Call("translate", 0, "Ok", "", <<>>)
    /\ UNCHANGED <<output, calls, prefix, source, source_eof, obs, seen, handle, ref, borrows,
                   input, out>>

ProbeBorrow ==
    /\ tr.pc = "detect"
    /\ LET r == borrow_mut(handle, Self)
       IN /\ Commit(r)
          /\ ref' = r.ref
          /\ ret' = Call("borrow_mut", 0, "Ok", "", r.ref.b)
    /\ borrows' = borrows + 1
    /\ tr' = [tr EXCEPT !.pc = IF Formats[tr.probe] = "Yaml" THEN "encoding" ELSE "probe",
                        !.called = Append(@, Formats[tr.probe]),
                        !.chunk = NoChunk]
    /\ UNCHANGED <<output, calls, obs, seen, handle, input, out>>

\* yaml::input_matches up to Encoding::detect(input.prefix(DETECT_LEN)?).
ProbeEncoding ==
    /\ tr.pc = "encoding"
    /\ \E r \in Ref_prefix(ref, Self, DETECT_LEN) :
        /\ Commit(r)
        /\ ret' = IF r.res = "Err"
                  THEN Call("input_matches", tr.probe, "Err", r.kind, <<>>)
                  ELSE Call("prefix", DETECT_LEN, r.res, r.kind, r.bytes)
        /\ tr' = IF r.res = "Err"
                 THEN detect(tr, ProbeErr(r.kind))
                 ELSE [tr EXCEPT !.pc = "probe"]
        /\ ref' = IF r.res = "Err" THEN NoRef ELSE ref
    /\ UNCHANGED <<output, calls, obs, seen, handle, borrows, input, out>>

ProbeRead ==
    /\ tr.pc = "probe"
    /\ ref.kind = "Reader"
    /\ \E n \in 1..MaxBuf : \E r \in read(Self, n) :
        /\ Commit(r)
        /\ ret' = Call("read", n, r.res, r.kind, r.bytes)
    /\ UNCHANGED <<output, calls, obs, seen, handle, ref, borrows, input, out, tr>>

ProbePrefix ==
    /\ tr.pc = "probe"
    /\ Formats[tr.probe] # "Yaml"
    /\ \E size_hint \in 1..(MaxData + 1) :
        \E r \in Ref_prefix(ref, Self, size_hint) :
            /\ Commit(r)
            /\ ret' = Call("prefix", size_hint, r.res, r.kind, r.bytes)
    /\ UNCHANGED <<output, calls, obs, seen, handle, ref, borrows, input, out, tr>>

ProbeReturn ==
    /\ tr.pc = "probe"
    /\ \E chunk \in Chunks(ret) :
        LET m == IF Formats[tr.probe] = "Yaml"
                 THEN yaml_input_matches(chunk)
                 ELSE other_input_matches(Formats[tr.probe], chunk)
        IN /\ tr' = detect([tr EXCEPT !.chunk = chunk,
                                       !.malformed =
                                           IF chunk = ChunkErr("InvalidData")
                                           THEN @ \cup {Formats[tr.probe]}
                                           ELSE @], m)
           /\ ret' = Call("input_matches", tr.probe, m.res, m.kind, <<>>)
    /\ ref' = NoRef
    /\ UNCHANGED <<output, calls, prefix, source, source_eof, obs, seen, handle, borrows,
                   input, out>>

TranscodeSlice ==
    /\ tr.pc = "transcode"
    /\ tr.format \in SliceOnlyFormats
    /\ \E r \in try_from(handle, Self) :
        /\ Commit(r)
        /\ ret' = Call("try_from", 0, r.res, r.kind, r.bytes)
        /\ tr' = IF r.res = "Err"
                 THEN [tr EXCEPT !.pc = "failed", !.err = r.kind]
                 ELSE [tr EXCEPT !.pc = "bridge"]
    /\ handle' = [handle EXCEPT !.moved = TRUE]
    /\ UNCHANGED <<output, calls, obs, seen, ref, borrows, input, out>>

TranscodeInput ==
    /\ tr.pc = "transcode"
    /\ tr.format \notin SliceOnlyFormats
    /\ LET r == from(handle, Self)
       IN /\ Commit(r)
          /\ input' = r.input
          /\ out' = r.input.b
          /\ ret' = Call("from", 0, "Ok", "", r.input.b)
    /\ handle' = [handle EXCEPT !.moved = TRUE]
    /\ tr' = [tr EXCEPT !.pc = "bridge"]
    /\ UNCHANGED <<output, calls, obs, seen, ref, borrows>>

BridgeRead ==
    /\ tr.pc = "bridge"
    /\ input.kind = "Reader"
    /\ \E n \in 1..MaxBuf : \E r \in Input_read(input, source, n) :
        /\ input' = r.input
        /\ source' = r.source
        /\ ret' = Call("input_read", n, r.res, r.kind, r.bytes)
        /\ out' = out \o r.bytes
    /\ UNCHANGED <<output, calls, prefix, source_eof, obs, seen, handle, ref, borrows, tr>>

NextTranslate ==
    \/ Translate
    \/ ProbeBorrow
    \/ ProbeEncoding
    \/ ProbeRead
    \/ ProbePrefix
    \/ ProbeReturn
    \/ TranscodeSlice
    \/ TranscodeInput
    \/ BridgeRead

SpecTranslate == InitTranslate /\ [][NextTranslate]_vars

(***************************************************************************)
(* A Translator (src/src/lib.rs) used for several inputs: the Dispatcher   *)
(* with the writer it owns, and the bridge that hands it the documents of  *)
(* an input one at a time.  What the writer holds is a sequence of items:  *)
(* a "---" marker line, the serialisation of a document (complete, or      *)
(* broken off, possibly before its first byte), or the torn beginning of a *)
(* marker line whose write failed.  A document is named by the number of   *)
(* the translate call it came in with and its number in that input.        *)
(***************************************************************************)
Marker == [t |-> "marker", call |-> 0, idx |-> 0, complete |-> TRUE]

Torn == [t |-> "torn", call |-> 0, idx |-> 0, complete |-> FALSE]

Body(d, complete) ==
    [t |-> "doc", call |-> d.call, idx |-> d.idx, complete |-> complete]

\* A document handed to the output; one that is not wellformed makes the
\* serializer fail part-way.
Document(call, idx, wellformed) ==
    [call |-> call, idx |-> idx, wellformed |-> wellformed]

Sunk(self, res) == [self |-> self, res |-> res]

\* writeln!(&mut self.0, "---"): the line is written, or the write fails
\* having written nothing or a part of the line.
writeln_marker(self) ==
    {Sunk([self EXCEPT !.w = Append(@, Marker)], "Ok")}
    \cup (IF self.werrs > 0
          THEN {Sunk([self EXCEPT !.werrs = @ - 1, !.w = @ \o tail], "Err")
                  : tail \in {<<>>, <<Torn>>}}
          ELSE {})

\* A serializer driven by document d: the document is written whole, or it
\* is broken off by the document being malformed or by a failed write.
serialize(self, d) ==
    (IF d.wellformed
     THEN {Sunk([self EXCEPT !.w = Append(@, Body(d, TRUE))], "Ok")}
     ELSE {Sunk([self EXCEPT !.w = Append(@, Body(d, FALSE))], "Err")})
    \cup (IF self.werrs > 0
          THEN {Sunk([self EXCEPT !.werrs = @ - 1,
                                  !.w = Append(@, Body(d, FALSE))], "Err")}
          ELSE {})

\* yaml::Output that writes the marker between documents only.
yaml_transcode_from_separating(self, d) ==
    IF self.w = <<>>
    THEN serialize(self, d)
    ELSE UNION {IF m.res = "Err" THEN {m} ELSE serialize(m.self, d)
                  : m \in writeln_marker(self)}

\* yaml::Output::transcode_from
yaml_transcode_from(self, d) ==
    UNION {IF m.res = "Err" THEN {m} ELSE serialize(m.self, d)
             : m \in writeln_marker(self)}

\* yaml::Output::transcode_value
yaml_transcode_value(self, d) ==
    UNION {IF m.res = "Err" THEN {m} ELSE serialize(m.self, d)
             : m \in writeln_marker(self)}

\* json::Output and msgpack::Output: documents back to back.
concat_transcode(self, d) == serialize(self, d)

\* toml::Output: one document, a second is refused.
toml_transcode(self, d) ==
    IF self.used
    THEN {Sunk(self, "Err")}
    ELSE {Sunk([r.self EXCEPT !.used = TRUE], r.res) : r \in serialize(self, d)}

\* Dispatcher::new that makes the YAML output for TOML.
Dispatcher_new_toml_as_yaml(to) ==
    [to |-> to, sink |-> IF to = "Toml" THEN "Yaml" ELSE to, w |-> <<>>,
     used |-> FALSE, werrs |-> MaxWriteErrs]

\* Dispatcher::new over an empty writer.
Dispatcher_new(to) ==
    [to |-> to, sink |-> to, w |-> <<>>, used |-> FALSE, werrs |-> MaxWriteErrs]

\* Output for &mut Dispatcher
Dispatcher_transcode_from(self, d) ==
    IF self.sink = "Yaml" THEN yaml_transcode_from(self, d)
    ELSE IF self.sink = "Toml" THEN toml_transcode(self, d)
    ELSE concat_transcode(self, d)

Dispatcher_transcode_value(self, d) ==
    IF self.sink = "Yaml" THEN yaml_transcode_value(self, d)
    ELSE IF self.sink = "Toml" THEN toml_transcode(self, d)
    ELSE concat_transcode(self, d)

\* A translate call that has handed n documents to the output.
NewCall == [n |-> 0, res |-> "Running"]

Turned(call, o) == [call |-> call, output |-> o]

\* transcode_reader without the ? on output.transcode_from.
transcode_reader_unchecked(c, k, o, chunk) ==
    IF chunk = "none" THEN {Turned([c EXCEPT !.res = "Ok"], o)}
    ELSE IF chunk = "err" THEN {Turned([c EXCEPT !.res = "Err"], o)}
    ELSE {Turned([c EXCEPT !.n = @ + 1], r.self)
            : r \in Dispatcher_transcode_from(o, Document(k, c.n + 1, chunk = "ok"))}

\* One turn of the loop of yaml::transcode_reader (and of the slice loop of
\* yaml::transcode) in call k: the chunker yields no more document, an
\* error, or a document, which goes to output.transcode_from.
transcode_reader(c, k, o, chunk) ==
    IF chunk = "none" THEN {Turned([c EXCEPT !.res = "Ok"], o)}
    ELSE IF chunk = "err" THEN {Turned([c EXCEPT !.res = "Err"], o)}
    ELSE {Turned([c EXCEPT !.n = @ + 1,
                           !.res = IF r.res = "Err" THEN "Err" ELSE @], r.self)
            : r \in Dispatcher_transcode_from(o, Document(k, c.n + 1, chunk = "ok"))}

\* The json and msgpack bridges: the same loop.  The toml bridge: the whole
\* input is one document, and the call returns what the output returns.
other_transcode(format, c, k, o, chunk) ==
    IF format # "Toml" THEN transcode_reader(c, k, o, chunk)
    ELSE IF chunk \notin {"ok", "bad"} THEN {Turned([c EXCEPT !.res = "Err"], o)}
    ELSE {Turned([c EXCEPT !.n = @ + 1, !.res = r.res], r.self)
            : r \in Dispatcher_transcode_from(o, Document(k, c.n + 1, chunk = "ok"))
                    \cup Dispatcher_transcode_value(o, Document(k, c.n + 1, chunk = "ok"))}

\* What the input of call c can yield next.
NextChunks(format, c) ==
    IF format = "Toml" THEN {"ok", "bad", "err"}
    ELSE IF c.n < MaxDocs THEN {"ok", "bad", "err", "none"}
    ELSE {"err", "none"}

InitOutput ==
    /\ prefix = new(NewSource(0)).prefix
    /\ source = NewSource(0)
    /\ source_eof = FALSE
    /\ ret = Call("new", 0, "Ok", "", <<>>)
    /\ obs = <<>>
    /\ seen = <<>>
    /\ handle = NoHandle
    /\ ref = NoRef
    /\ borrows = 0
    /\ input = NoInput
    /\ out = <<>>
    /\ tr = NoTranslate
    /\ \E to \in {Formats[i] : i \in 1..Len(Formats)} : output = Dispatcher_new(to)
    /\ calls = <<>>

\* translate_slice or translate_reader, with the format given or omitted.
TranslateInput ==
    /\ tr.pc = "idle"
    /\ Len(calls) < MaxCalls
    /\ \E f \in {"None"} \cup {Formats[i] : i \in 1..Len(Formats)} :
        tr' = translate([NoTranslate EXCEPT !.pc = "translate", !.from = f])
    /\ calls' = Append(calls, NewCall)
    /\ ret' = Call("translate", Len(calls) + 1, "Ok", "", <<>>)
    /\ UNCHANGED <<prefix, source, source_eof, obs, seen, handle, ref, borrows,
                   input, out, output>>

\* A translate that starts a YAML output when the YAML probe matches.
translate_detect_initialising(t, o, m) ==
    [tr |-> detect([t EXCEPT !.called = Append(@, Formats[t.probe])], m),
     output |-> IF m = Matches(TRUE) /\ Formats[t.probe] = "Yaml"
                THEN [o EXCEPT !.w = Append(@, Marker)]
                ELSE o]

\* translate while Format::detect(&mut input) runs: probe t.probe returns m.
\* detect is given the handle alone; the Dispatcher o stays with translate.
translate_detect(t, o, m) ==
    [tr |-> detect([t EXCEPT !.called = Append(@, Formats[t.probe])], m),
     output |-> o]

\* One probe of Format::detect (its reads of the handle are modelled under
\* SpecTranslate); when detection fails, translate returns the error.
DetectProbe ==
    /\ tr.pc = "detect"
    /\ LET k == Len(calls)
       IN \E m \in {Matches(TRUE), Matches(FALSE)} \cup {ProbeErr(e) : e \in ErrorKinds} :
            LET r == translate_detect(tr, output, m)
            IN /\ output' = r.output
               /\ tr' = IF r.tr.pc = "failed" THEN NoTranslate ELSE r.tr
               /\ calls' = IF r.tr.pc = "failed"
                           THEN [calls EXCEPT ![k].res = "Err"]
                           ELSE calls
               /\ ret' = Call("detect", k, IF r.tr.pc = "failed" THEN "Err" ELSE "Ok",
                              r.tr.err, <<>>)
    /\ UNCHANGED <<prefix, source, source_eof, obs, seen, handle, ref, borrows,
                   input, out>>

TranscodeDocument ==
    /\ tr.pc = "transcode"
    /\ LET k == Len(calls)
       IN \E chunk \in NextChunks(tr.format, calls[k]) :
            \E r \in (IF tr.format = "Yaml"
                      THEN transcode_reader(calls[k], k, output, chunk)
                      ELSE other_transcode(tr.format, calls[k], k, output, chunk)) :
                /\ calls' = [calls EXCEPT ![k] = r.call]
                /\ output' = r.output
                /\ tr' = IF r.call.res = "Running" THEN tr ELSE NoTranslate
                /\ ret' = Call("transcode", k, IF r.call.res = "Err" THEN "Err" ELSE "Ok",
                               "", <<>>)
    /\ UNCHANGED <<prefix, source, source_eof, obs, seen, handle, ref, borrows,
                   input, out>>

NextOutput ==
    \/ TranslateInput
    \/ DetectProbe
    \/ TranscodeDocument

SpecOutput == InitOutput /\ [][NextOutput]_vars

(***************************************************************************)
(* yaml::transcode (src/src/yaml.rs) on streams of real bytes: the text    *)
(* "k" (U+006B) or "e-acute" (U+00E9), alone or after a byte order mark    *)
(* (U+FEFF), in each of the five encodings of YAML 1.2, and one stream     *)
(* that is valid in none.  out is the text the documents handed to         *)
(* serde_yaml are cut from, tr.path the arm of yaml::transcode taken.      *)
(***************************************************************************)
BOM_UTF8 == <<239, 187, 191>>

BOM_UTF16LE == <<255, 254>>

BOM_UTF16BE == <<254, 255>>

BOM_UTF32LE == <<255, 254, 0, 0>>

BOM_UTF32BE == <<0, 0, 254, 255>>

Encodings == {"Utf8", "Utf16Le", "Utf16Be", "Utf32Le", "Utf32Be"}

\* The code units of code point cp (below 65536, no surrogate) in bytes.
Units(enc, cp) ==
    IF enc = "Utf8"
    THEN IF cp < 128 THEN <<cp>>
         ELSE IF cp < 2048 THEN <<192 + (cp \div 64), 128 + (cp % 64)>>
         ELSE <<224 + (cp \div 4096), 128 + ((cp \div 64) % 64), 128 + (cp % 64)>>
    ELSE IF enc = "Utf16Le" THEN <<cp % 256, cp \div 256>>
    ELSE IF enc = "Utf16Be" THEN <<cp \div 256, cp % 256>>
    ELSE IF enc = "Utf32Le" THEN <<cp % 256, cp \div 256, 0, 0>>
    ELSE <<0, 0, cp \div 256, cp % 256>>

RECURSIVE Encoded(_, _)
Encoded(enc, cps) ==
    IF cps = <<>> THEN <<>> ELSE Units(enc, Head(cps)) \o Encoded(enc, Tail(cps))

\* The code points of b read in encoding enc; -1 stands for a sequence that
\* is not valid in it, which ends the decoding.
RECURSIVE Decoded(_, _)
Decoded(enc, b) ==
    IF b = <<>> THEN <<>>
    ELSE LET cont(i) == i <= Len(b) /\ b[i] \in 128..191
             w == IF enc = "Utf8"
                  THEN IF b[1] < 128 THEN 1
                       ELSE IF b[1] \in 194..223 /\ cont(2) THEN 2
                       ELSE IF b[1] \in 224..239 /\ cont(2) /\ cont(3) THEN 3
                       ELSE 0
                  ELSE IF enc \in {"Utf16Le", "Utf16Be"} THEN 2
                  ELSE 4
         IN IF w = 0 \/ Len(b) < w THEN <<-1>>
            ELSE LET cp == IF enc = "Utf8"
                           THEN IF w = 1 THEN b[1]
                                ELSE IF w = 2 THEN (b[1] - 192) * 64 + (b[2] - 128)
                                ELSE (b[1] - 224) * 4096 + (b[2] - 128) * 64
                                     + (b[3] - 128)
                           ELSE IF enc = "Utf16Le" THEN b[1] + 256 * b[2]
                           ELSE IF enc = "Utf16Be" THEN 256 * b[1] + b[2]
                           ELSE IF enc = "Utf32Le"
                           THEN IF b[3] = 0 /\ b[4] = 0 THEN b[1] + 256 * b[2] ELSE -1
                           ELSE IF b[1] = 0 /\ b[2] = 0 THEN 256 * b[3] + b[4] ELSE -1
                IN IF cp = -1 THEN <<-1>>
                   ELSE <<cp>> \o Decoded(enc, SubSeq(b, w + 1, Len(b)))

Valid(cps) == \A i \in 1..Len(cps) : cps[i] # -1

\* The texts of the test streams, as code points.
Texts == {<<107>>, <<233>>, <<65279, 107>>, <<65279, 233>>}

\* A byte sequence that is not valid in any encoding.
Malformed == <<107, 128, 128>>

Streams == {Encoded(enc, cps) : enc \in Encodings, cps \in Texts} \cup {Malformed}

\* A source reader that holds the stream b.
StreamSource(b) == [NewSource(0) EXCEPT !.data = b]

\* str::from_utf8(b).is_ok(); overlong forms and four-byte sequences, which
\* no test stream holds, are left out.
from_utf8(b) == Valid(Decoded("Utf8", b))

\* Encoding::detect on the first DETECT_LEN bytes of the stream.
Encoding_detect(p) ==
    LET at(i) == IF i <= Len(p) THEN p[i] ELSE -1
    IN IF SubSeq(p, 1, Min(4, Len(p))) = BOM_UTF32BE THEN "Utf32Be"
       ELSE IF SubSeq(p, 1, Min(4, Len(p))) = BOM_UTF32LE THEN "Utf32Le"
       ELSE IF SubSeq(p, 1, Min(2, Len(p))) = BOM_UTF16BE THEN "Utf16Be"
       ELSE IF SubSeq(p, 1, Min(2, Len(p))) = BOM_UTF16LE THEN "Utf16Le"
       ELSE IF SubSeq(p, 1, Min(3, Len(p))) = BOM_UTF8 THEN "Utf8"
       ELSE IF at(1) = 0 /\ at(2) = 0 /\ at(3) = 0 /\ Len(p) >= 4 THEN "Utf32Be"
       ELSE IF Len(p) >= 4 /\ at(2) = 0 /\ at(3) = 0 /\ at(4) = 0 THEN "Utf32Le"
       ELSE IF at(1) = 0 /\ Len(p) >= 2 THEN "Utf16Be"
       ELSE IF at(2) = 0 THEN "Utf16Le"
       ELSE "Utf8"

Text(res, kind, text) == [res |-> res, kind |-> kind, text |-> text]

\* Encoder::from_reader read to its end: the stream re-encoded as UTF-8
\* without a leading byte order mark, or InvalidData.  Of a UTF-8 stream the
\* mark is stripped or kept: the comment in transcode_reader counts byte
\* order marks in UTF-8 streams among the cases that are not covered.
Encoder(b) ==
    LET enc == Encoding_detect(SubSeq(b, 1, Min(DETECT_LEN, Len(b))))
        cps == Decoded(enc, b)
        marked == cps # <<>> /\ Head(cps) = 65279
    IN IF ~Valid(cps) THEN {Text("Err", "InvalidData", <<>>)}
       ELSE {Text("Ok", "", Encoded("Utf8", IF marked THEN Tail(cps) ELSE cps))}
            \cup (IF marked /\ enc = "Utf8"
                  THEN {Text("Ok", "", Encoded("Utf8", cps))}
                  ELSE {})

\* What an Input delivers: the slice, or what is left to read of the reader.
InputStream(inp, src) ==
    LET rest == SubSeq(src.data, src.pos + 1, Len(src.data))
    IN IF inp.kind = "Slice" THEN inp.b
       ELSE IF inp.reader = "chain" THEN inp.cursor.vec \o rest
       ELSE rest

\* yaml::transcode that hands every slice to the parser as it is.
yaml_transcode_slices_unencoded(inp) ==
    IF inp.kind = "Reader" THEN "transcode_reader" ELSE "from_str"

\* The match of yaml::transcode: which arm takes the Input.
yaml_transcode(inp) ==
    IF inp.kind = "Reader" THEN "transcode_reader"
    ELSE IF from_utf8(inp.b) THEN "from_str"
    ELSE "transcode_reader"

\* The text the parser is given documents of: the slice itself in the
\* from_str arm, the output of the Encoder in transcode_reader.
yaml_transcode_text(path, b) ==
    IF path = "from_str" THEN {Text("Ok", "", b)} ELSE Encoder(b)

\* The str loop without the ? on output.transcode_from.
yaml_transcode_str_unchecked(c, k, o, chunk) ==
    IF chunk = "none" THEN {Turned([c EXCEPT !.res = "Ok"], o)}
    ELSE {Turned([c EXCEPT !.n = @ + 1], r.self)
            : r \in Dispatcher_transcode_from(o, Document(k, c.n + 1, chunk = "ok"))}

\* One turn of the loop over serde_yaml::Deserializer::from_str(s): the
\* iterator yields no more document, or a document, which goes to
\* output.transcode_from.
yaml_transcode_str(c, k, o, chunk) ==
    IF chunk = "none" THEN {Turned([c EXCEPT !.res = "Ok"], o)}
    ELSE {Turned([c EXCEPT !.n = @ + 1,
                           !.res = IF r.res = "Err" THEN "Err" ELSE @], r.self)
            : r \in Dispatcher_transcode_from(o, Document(k, c.n + 1, chunk = "ok"))}

\* What the document source of an arm can yield next: the chunker can fail,
\* the parser's iterator cannot.
YamlChunks(path, c) ==
    IF path = "from_str" THEN NextChunks("Yaml", c) \ {"err"}
    ELSE NextChunks("Yaml", c)

\* A Translator is given a YAML input as a slice or as a reader, nothing of
\* which, its head or all of which detection has captured.
InitYaml ==
    /\ \E b \in Streams :
        \/ /\ handle = from_slice(b)
           /\ source = NewSource(0)
           /\ prefix = new(source).prefix
           /\ source_eof = new(source).source_eof
        \/ /\ handle = from_reader
           /\ \E c \in {Result(new(StreamSource(b)), "Ok", "", <<>>)}
                       \cup capture_up_to_size(new(StreamSource(b)), DETECT_LEN)
                       \cup capture_to_end(new(StreamSource(b))) :
                /\ c.res = "Ok"
                /\ WellBehaved(c.self.source)
                /\ prefix = c.self.prefix
                /\ source = c.self.source
                /\ source_eof = c.self.source_eof
    /\ ret = Call("new", 0, "Ok", "", <<>>)
    /\ obs = <<>>
    /\ seen = <<>>
    /\ ref = NoRef
    /\ borrows = 0
    /\ input = NoInput
    /\ out = <<>>
    /\ tr = translate([NoTranslate EXCEPT !.pc = "translate", !.from = "Yaml"])
    /\ \E to \in {Formats[i] : i \in 1..Len(Formats)} : output = Dispatcher_new(to)
    /\ calls = <<NewCall>>

\* yaml::transcode up to its loop: the handle becomes an Input, the arm is
\* chosen, and the Encoder of transcode_reader is made.
YamlTranscode ==
    /\ tr.pc = "transcode"
    /\ LET r == from(handle, Self)
           path == yaml_transcode(r.input)
       IN /\ Commit(r)
          /\ input' = r.input
          /\ \E e \in yaml_transcode_text(path, InputStream(r.input, r.self.source)) :
                /\ out' = e.text
                /\ tr' = [tr EXCEPT !.path = path,
                                    !.pc = IF e.res = "Err" THEN "returned"
                                           ELSE "documents",
                                    !.err = e.kind]
                /\ calls' = [calls EXCEPT ![1].res = IF e.res = "Err" THEN "Err" ELSE @]
                /\ ret' = Call("yaml_transcode", 0, e.res, e.kind, e.text)
    /\ handle' = [handle EXCEPT !.moved = TRUE]
    /\ UNCHANGED <<output, obs, seen, ref, borrows>>

\* One turn of the loop of the arm taken.
YamlDocument ==
    /\ tr.pc = "documents"
    /\ \E chunk \in YamlChunks(tr.path, calls[1]) :
        \E r \in (IF tr.path = "from_str"
                  THEN yaml_transcode_str(calls[1], 1, output, chunk)
                  ELSE transcode_reader(calls[1], 1, output, chunk)) :
            /\ calls' = [calls EXCEPT ![1] = r.call]
            /\ output' = r.output
            /\ tr' = IF r.call.res = "Running" THEN tr
                     ELSE [tr EXCEPT !.pc = "returned"]
            /\ ret' = Call("transcode", 1, IF r.call.res = "Err" THEN "Err" ELSE "Ok",
                           "", <<>>)
    /\ UNCHANGED <<prefix, source, source_eof, obs, seen, handle, ref, borrows,
                   input, out>>

NextYaml ==
    \/ YamlTranscode
    \/ YamlDocument

SpecYaml == InitYaml /\ [][NextYaml]_vars

(***************************************************************************)
(* Properties of translate, checked under SpecTranslate.                   *)
(***************************************************************************)

\* C9: when translate is given the source format of a reader input, the
\* handle is never borrowed, nothing is read from the source or captured
\* before the format's transcode takes the handle, and the owned Input is
\* Input::Reader holding the source itself, neither a slice nor a chain.
C9_NoCostWhenSkipped ==
    (tr.from # "None" /\ handle.kind = "Reader") =>
        /\ borrows = 0
        /\ ref = NoRef
        /\ tr.pc \in {"translate", "transcode"} =>
            /\ source = NewSource(Len(source.data))
            /\ captured(Self) = <<>>
            /\ ~source_eof
        /\ input.kind # "None" => input = SourceInput

\* A format given by the caller has read bytes from the owned Input of a
\* reader.
C9_Witness ==
    /\ tr.from = "Yaml"
    /\ handle.kind = "Reader"
    /\ tr.pc = "bridge"
    /\ input = SourceInput
    /\ Len(out) >= 2

\* C11: Format::detect invokes the probes in the order MessagePack, JSON,
\* YAML, TOML, a probe only after every earlier one returned "not matched";
\* each probe gets a fresh borrow of the handle that starts at byte 0 (the
\* whole slice, or the reader rewound to replay position 0); the format
\* detected is that of the last probe invoked, which is the first to match.
C11_DetectionOrder ==
    /\ [](/\ IsPrefix(tr.called, <<"Msgpack", "Json", "Yaml", "Toml">>)
          /\ Len(tr.answers) \in {Len(tr.called) - 1, Len(tr.called)}
          /\ \A i \in 1..Len(tr.answers) :
                i < Len(tr.called) => tr.answers[i] = Matches(FALSE)
          /\ (tr.from = "None" /\ tr.pc \in {"transcode", "bridge"}) =>
                /\ Len(tr.answers) = Len(tr.called)
                /\ tr.answers[Len(tr.answers)] = Matches(TRUE)
                /\ tr.format = tr.called[Len(tr.called)])
    /\ [][Len(tr'.called) > Len(tr.called) =>
            /\ ref'.kind = (IF handle.kind = "Slice" \/ source_eof
                            THEN "Slice" ELSE "Reader")
            /\ ref'.kind = "Slice" =>
                ref'.b = (IF handle.kind = "Slice" THEN handle.b ELSE captured(Self))
            /\ ref'.kind = "Reader" => prefix'.pos = 0 /\ prefix'.vec = prefix.vec]_vars

\* The YAML probe is the first to match a reader whose whole stream is
\* captured.
C11_Witness ==
    /\ tr.called = <<"Msgpack", "Json", "Yaml">>
    /\ tr.answers = <<Matches(FALSE), Matches(FALSE), Matches(TRUE)>>
    /\ tr.format = "Yaml"
    /\ handle.kind = "Reader"
    /\ Len(captured(Self)) = MaxData

\* C12: translate fails with "unable to detect input format" exactly when
\* from was omitted and all four probes returned "not matched" (none of them
\* an error); then no bridge has taken the handle.  With from given the error
\* never occurs, and once a probe matched, translate goes on to the bridge of
\* that probe's format.
C12_NotDetected ==
    /\ (tr.err = "unable to detect input format") <=>
          /\ tr.from = "None"
          /\ Len(tr.answers) = 4
          /\ \A i \in 1..4 : tr.answers[i] = Matches(FALSE)
    /\ tr.err = "unable to detect input format" =>
          tr.pc = "failed" /\ ~handle.moved /\ input = NoInput
    /\ tr.from # "None" => tr.err # "unable to detect input format"
    /\ \A i \in 1..Len(tr.answers) :
          tr.answers[i] = Matches(TRUE) =>
              /\ tr.format = tr.called[i]
              /\ tr.pc \in {"transcode", "bridge", "failed"}
              /\ tr.err # "unable to detect input format"
              /\ tr.pc = "bridge" => handle.moved

\* All four probes looked at a reader and none matched.
C12_Witness ==
    /\ tr.err = "unable to detect input format"
    /\ tr.pc = "failed"
    /\ handle.kind = "Reader"
    /\ tr.called = <<"Msgpack", "Json", "Yaml", "Toml">>
    /\ Len(captured(Self)) > 0

\* C13: when a probe's parse fails with InvalidData the probe returns "not
\* matched" and detect goes on to the next probe (after the last one, to "no
\* format"); when a probe meets any other error, detect stops at once, the
\* caller gets that very error, and from then on no probe is invoked and no
\* bridge takes the handle.
C13_ProbeErrors ==
    /\ [][Len(tr'.answers) > Len(tr.answers) =>
            LET m == tr'.answers[Len(tr'.answers)]
            IN /\ tr'.chunk = ChunkErr("InvalidData") =>
                    /\ m = Matches(FALSE)
                    /\ tr.probe < 4 => tr'.pc = "detect" /\ tr'.probe = tr.probe + 1
                    /\ tr.probe = 4 => tr'.err = "unable to detect input format"
               /\ (tr'.chunk.tag = "err" /\ tr'.chunk.kind # "InvalidData") =>
                    m = ProbeErr(ret.kind) /\ ret.res = "Err"
               /\ m.res = "Err" =>
                    /\ tr'.pc = "failed"
                    /\ tr'.err = m.kind
                    /\ ret' = Call("input_matches", tr.probe, "Err", m.kind, <<>>)
                    /\ tr'.called = tr.called]_vars
    /\ [][tr.pc = "failed" => UNCHANGED <<tr, handle, input, borrows, ref>>]_vars
    /\ [](\A i \in 1..Len(tr.answers) :
            tr.answers[i].res = "Err" =>
                /\ i = Len(tr.called)
                /\ tr.pc = "failed"
                /\ tr.err = tr.answers[i].kind
                /\ tr.format = "None"
                /\ ~handle.moved
                /\ input = NoInput)

\* The YAML probe's parse failed with InvalidData, detection went on to the
\* TOML probe, and a failed read of the reader made that probe abort it.
C13_Witness ==
    /\ "Yaml" \in tr.malformed
    /\ tr.called = <<"Msgpack", "Json", "Yaml", "Toml">>
    /\ tr.answers = <<Matches(FALSE), Matches(FALSE), Matches(FALSE),
                      ProbeErr("Other")>>
    /\ tr.pc = "failed"
    /\ tr.err = "Other"
    /\ source.errs < MaxErrs

\* C17: when yaml::input_matches returns, it returns true only if the first
\* chunk is a document that is a collection; it returns false if the first
\* document is a scalar, if there is no document, and if the first chunk
\* failed with InvalidData; it returns an error only if the first chunk
\* failed with an error of another kind, which it returns, or if taking the
\* prefix failed before any chunk was asked for.
C17_YamlCollectionOnly ==
    (ret.op = "input_matches" /\ ret.arg = 3) =>
        LET m == tr.answers[3]
        IN /\ Len(tr.answers) = 3
           /\ m = Matches(TRUE) => tr.chunk = Doc(TRUE)
           /\ tr.chunk \in {Doc(FALSE), NoDoc, ChunkErr("InvalidData")} =>
                m = Matches(FALSE)
           /\ m.res = "Err" =>
                \/ /\ tr.chunk.tag = "err"
                   /\ tr.chunk.kind # "InvalidData"
                   /\ m.kind = tr.chunk.kind
                \/ /\ tr.chunk = NoChunk
                   /\ m.kind \in ErrorKinds
           /\ ret.res = m.res
           /\ ret.kind = m.kind

\* The YAML probe matched a reader: its first chunk was a collection.
C17_Witness ==
    /\ ret.op = "input_matches"
    /\ ret.arg = 3
    /\ tr.answers = <<Matches(FALSE), Matches(FALSE), Matches(TRUE)>>
    /\ tr.chunk = Doc(TRUE)
    /\ handle.kind = "Reader"
    /\ ~source_eof

(***************************************************************************)
(* Properties of the Translator's output, checked under SpecOutput.        *)
(***************************************************************************)
\* The documents whose serialisation was begun, in the order of the output.
Bodies == SelectSeq(output.w, LAMBDA item : item.t = "doc")

\* C14: with TOML as the output format the output never holds more than one
\* document, and a document handed to the output once it holds one is
\* refused: the call fails and nothing is written, whether the document
\* comes from the input of the first or from a later input.
C14_TomlSingleDocument ==
    /\ [](output.to = "Toml" => Len(Bodies) <= 1)
    /\ [][(/\ output.to = "Toml"
           /\ Len(Bodies) = 1
           /\ Len(calls') = Len(calls)
           /\ calls'[Len(calls)].n > calls[Len(calls)].n) =>
                /\ calls'[Len(calls)].res = "Err"
                /\ output'.w = output.w
                /\ tr'.pc = "idle"]_vars

\* The TOML output took the first document of the first input and refused
\* the second document of that input and the first of the next input.
C14_Witness ==
    /\ output.to = "Toml"
    /\ calls = <<[n |-> 2, res |-> "Err"], [n |-> 1, res |-> "Err"]>>
    /\ output.w = <<Body(Document(1, 1, TRUE), TRUE)>>

\* C15: the documents in the output are those the inputs handed over, call
\* after call and within a call in input order: the i-th document of a call
\* is the i-th of that call in the output, documents of an earlier call come
\* before those of a later one, none is missing as long as the call has not
\* failed, and only the document at which a call failed can be broken off or
\* missing.
C15_OutputOrder ==
    LET count(k) == Cardinality({i \in 1..Len(Bodies) : Bodies[i].call = k})
    IN /\ \A i \in 1..Len(Bodies) :
            LET k == Bodies[i].call
            IN /\ k \in 1..Len(calls)
               /\ Bodies[i].idx = 1 + Cardinality({j \in 1..(i - 1) : Bodies[j].call = k})
               /\ \A j \in 1..(i - 1) : Bodies[j].call <= k
               /\ \/ Bodies[i].complete
                  \/ calls[k].res = "Err" /\ Bodies[i].idx = calls[k].n
       /\ \A k \in 1..Len(calls) :
            /\ calls[k].res # "Err" => count(k) = calls[k].n
            /\ calls[k].res = "Err" => count(k) \in {calls[k].n - 1, calls[k].n}
            /\ k < Len(calls) => calls[k].res # "Running"

\* Two inputs of two documents each were translated to JSON.
C15_Witness ==
    /\ output.to = "Json"
    /\ calls = <<[n |-> 2, res |-> "Ok"], [n |-> 2, res |-> "Ok"]>>
    /\ output.w = <<Body(Document(1, 1, TRUE), TRUE), Body(Document(1, 2, TRUE), TRUE),
                    Body(Document(2, 1, TRUE), TRUE), Body(Document(2, 2, TRUE), TRUE)>>

\* C16: with YAML as the output format every document in the output, whole
\* or broken off, comes right after a "---" line of its own, and the output
\* holds as many "---" lines as documents whose serialisation was begun.
C16_YamlFraming ==
    output.to = "Yaml" =>
        /\ \A i \in 1..Len(output.w) :
            output.w[i].t = "doc" => i > 1 /\ output.w[i - 1] = Marker
        /\ Cardinality({i \in 1..Len(output.w) : output.w[i] = Marker}) = Len(Bodies)

\* The YAML output holds a marker line before the first document and before
\* a document of the second input, after a marker line whose write failed.
C16_Witness ==
    /\ output.to = "Yaml"
    /\ Len(calls) = 2
    /\ calls[1].res = "Err"
    /\ output.w = <<Marker, Body(Document(1, 1, TRUE), TRUE), Torn,
                    Marker, Body(Document(2, 1, TRUE), TRUE)>>

\* C27: detection does not write.  While Format::detect runs, the content
\* of the output, its write budget and the count of documents handed to it
\* stay what they were when translate was called; a translate that returns
\* "unable to detect input format" or the error of a probe has handed no
\* document over, and a document goes to the output only in a call whose
\* format was given or whose latest probe matched.
C27_DetectionNeverWrites ==
    /\ [](/\ tr.pc = "detect" =>
                /\ calls[Len(calls)] = NewCall
                /\ \A i \in 1..Len(Bodies) : Bodies[i].call < Len(calls)
          /\ (tr.pc = "transcode" /\ tr.from = "None") =>
                /\ tr.answers # <<>>
                /\ tr.answers[Len(tr.answers)] = Matches(TRUE)
                /\ tr.format = tr.called[Len(tr.called)])
    /\ [][tr.pc \in {"idle", "detect"} => output' = output]_vars
    /\ [][(tr.pc = "detect" /\ ret'.res = "Err") =>
                /\ output' = output
                /\ calls' = [calls EXCEPT ![Len(calls)] = [n |-> 0, res |-> "Err"]]
                /\ tr'.pc = "idle"
                /\ ret'.kind \in {"unable to detect input format"} \cup ErrorKinds]_vars

\* The second translate on a Translator whose JSON output holds a document
\* failed because no probe matched; the output holds that document alone.
C27_Witness ==
    /\ ret = Call("detect", 2, "Err", "unable to detect input format", <<>>)
    /\ calls = <<[n |-> 1, res |-> "Ok"], [n |-> 0, res |-> "Err"]>>
    /\ output.to = "Json"
    /\ output.w = <<Body(Document(1, 1, TRUE), TRUE)>>

(***************************************************************************)
(* Properties of yaml::transcode, checked under SpecYaml.                  *)
(***************************************************************************)

\* The text begins with a byte order mark, re-encoded or raw.
StartsWithBOM(text) ==
    \E bom \in {BOM_UTF8, BOM_UTF16LE, BOM_UTF16BE, BOM_UTF32LE, BOM_UTF32BE} :
        IsPrefix(bom, text)

\* C23 as stated: on every path of yaml::transcode the text whose documents
\* are handed to the parser does not begin with a byte order mark.
C23_NoBomReachesParser ==
    (tr.path # "" /\ tr.err = "") => ~StartsWithBOM(out)

\* C23, amended: a byte order mark at the start of a UTF-16 or UTF-32 stream
\* never reaches the parser: such a stream is not valid UTF-8, so reader and
\* slice alike take the transcode_reader arm, whose text is the stream
\* re-encoded without its first mark.  A slice that is valid UTF-8 takes the
\* from_str arm and is handed to the parser as it is, a UTF-8 byte order
\* mark at its start included.
C23_WideBomStripped ==
    tr.path # "" =>
        LET b == InputStream(input, source)
            enc == Encoding_detect(SubSeq(b, 1, Min(DETECT_LEN, Len(b))))
        IN /\ (\E bom \in {BOM_UTF16LE, BOM_UTF16BE, BOM_UTF32LE, BOM_UTF32BE} :
                    IsPrefix(bom, b)) =>
                /\ tr.path = "transcode_reader"
                /\ tr.err = "" =>
                    /\ out = Encoded("Utf8", Tail(Decoded(enc, b)))
                    /\ ~StartsWithBOM(out)
           /\ tr.path = "from_str" =>
                /\ input.kind = "Slice"
                /\ out = input.b

\* A slice that begins with the UTF-16LE byte order mark went through the
\* encoder, and the parser is given "k".
C23_Witness ==
    /\ input = SliceInput(BOM_UTF16LE \o <<107, 0>>)
    /\ tr.path = "transcode_reader"
    /\ tr.pc = "documents"
    /\ out = <<107>>

\* C24: yaml::transcode takes the transcode_reader arm (encoder and chunker)
\* for every Input::Reader and every slice that is not valid UTF-8, and the
\* from_str arm (no encoder, the parser's own iterator) exactly for the
\* slices that are valid UTF-8; in each arm the i-th document of the input
\* is the i-th in the output, none twice, only the last can be broken off or
\* missing, and then the call has failed; a document the output fails on
\* ends the call.
C24_PathSelection ==
    /\ [](tr.path # "" =>
            /\ input.kind = "Reader" => tr.path = "transcode_reader"
            /\ (input.kind = "Slice" /\ \E i \in 1..Len(input.b) : input.b[i] >= 248)
                    => tr.path = "transcode_reader"
            /\ tr.path = "from_str" <=> (input.kind = "Slice" /\ from_utf8(input.b))
            /\ tr.path = "from_str" => tr.err = "" /\ out = input.b
            /\ \A i \in 1..Len(Bodies) :
                    /\ Bodies[i].call = 1 /\ Bodies[i].idx = i
                    /\ Bodies[i].complete \/ (i = calls[1].n /\ calls[1].res = "Err")
            /\ Len(Bodies) \in (IF calls[1].res = "Err"
                                THEN {calls[1].n - 1, calls[1].n}
                                ELSE {calls[1].n})
            /\ calls[1].res # "Running" <=> tr.pc = "returned")
    /\ [][(/\ ret'.op = "transcode"
           /\ \/ Len(output'.w) > Len(output.w) /\ ~output'.w[Len(output'.w)].complete
              \/ output'.werrs < output.werrs
              \/ output'.w = output.w /\ calls'[1].n > calls[1].n)
            => calls'[1].res = "Err" /\ tr'.pc = "returned"]_vars

\* A slice of valid UTF-8 took the from_str arm; its first document is in
\* the output and the call ended at the second, on which the output failed.
C24_Witness ==
    /\ input = SliceInput(<<107>>)
    /\ tr.path = "from_str"
    /\ tr.pc = "returned"
    /\ calls = <<[n |-> 2, res |-> "Err"]>>
    /\ output.to = "Json"
    /\ output.w = <<Body(Document(1, 1, TRUE), TRUE), Body(Document(1, 2, TRUE), FALSE)>>

\* C26: a slice and a reader of the same bytes are translated alike: the
\* text whose documents the parser is given for a slice is a text it may be
\* given for a reader of those bytes, the one the Encoder makes of them.
C26_SliceReaderEquivalent ==
    (tr.path # "" /\ tr.err = "") =>
        out \in {e.text : e \in Encoder(InputStream(input, source))}

(***************************************************************************)
(* Properties of the Handle, checked under SpecHandle.                     *)
(***************************************************************************)

\* C1: whatever earlier refs read before they were dropped or forgotten, a
\* borrow_mut of a reader-backed handle presents the input from byte 0: a
\* Ref::Reader at replay position 0 whose first read returns the stream from
\* its first byte, or a Ref::Slice that starts at the first byte.
C1_HandleReplay ==
    handle.kind = "Reader" =>
        /\ (ret.op = "borrow_mut" /\ ref.kind = "Reader") => prefix.pos = 0
        /\ (ret.op = "borrow_mut" /\ ref.kind = "Slice") =>
                ref.b = SubSeq(source.data, 1, Len(ref.b))
        /\ (ret.op = "read" /\ ref.reads = 1 /\ ret.res = "Ok") =>
                ret.bytes = SubSeq(source.data, 1, Len(ret.bytes))

\* The first read of a later ref returns bytes after an earlier ref had read
\* further into the stream.
C1_Witness ==
    /\ handle.kind = "Reader"
    /\ borrows >= 2
    /\ ret.op = "read"
    /\ ref.reads = 1
    /\ Len(ret.bytes) >= 1
    /\ Len(seen) > Len(obs)

\* The whole content of the owned Input has been presented: it is a slice, or
\* its reader has returned 0 to a non-empty request.
InputExhausted ==
    \/ input.kind = "Slice"
    \/ /\ input.kind = "Reader"
       /\ ret.op = "input_read"
       /\ ret.res = "Ok"
       /\ ret.arg > 0
       /\ ret.bytes = <<>>

\* C2: the whole content of the Input made from a reader-backed handle is
\* exactly the bytes of the source from byte 0, none missing, duplicated or
\* reordered: all the bytes the source delivered up to the 0-return that ends
\* the content, which is the whole stream for a source that returns 0 only at
\* its end.
C2_OwnedInputComplete ==
    (handle.kind = "Reader" /\ InputExhausted) =>
        /\ out = SubSeq(source.data, 1, source.pos)
        /\ WellBehaved(source) => out = source.data

\* The chained reader has been read to its end after a ref had read part of
\* the input.
C2_Witness ==
    /\ handle.kind = "Reader"
    /\ input.reader = "chain"
    /\ InputExhausted
    /\ borrows >= 1
    /\ Len(seen) >= 1
    /\ Len(out) > Len(seen)

\* C3: the conversion to a slice yields the original slice for a slice-backed
\* handle, and for a reader-backed handle the whole input from byte 0, also
\* after a borrowed reader consumed part of it.
C3_HandleToSlice ==
    (ret.op = "try_from" /\ ret.res = "Ok") =>
        IF handle.kind = "Slice"
        THEN ret.bytes = handle.b
        ELSE /\ ret.bytes = SubSeq(source.data, 1, source.pos)
             /\ WellBehaved(source) => ret.bytes = source.data

\* The conversion succeeded after a borrowed reader had read a proper,
\* non-empty part of the input.
C3_Witness ==
    /\ handle.kind = "Reader"
    /\ ret.op = "try_from"
    /\ ret.res = "Ok"
    /\ Len(seen) >= 1
    /\ Len(seen) < Len(source.data)
    /\ ret.bytes = source.data

\* C10 as claimed: once the source has returned 0 to a borrowed reader, every
\* later borrow_mut returns Ref::Slice and the conversion returns Input::Slice.
C10_SliceAfterEof ==
    (handle.kind = "Reader" /\ source.everZero) =>
        /\ ret.op = "borrow_mut" => ref.kind = "Slice"
        /\ ret.op = "from" => input.kind = "Slice"

\* C10 as amended: when source_eof is set as the handle is borrowed or
\* converted, the result is a slice of every byte the source has delivered
\* (the whole stream for a source that returns 0 only at its end) and the
\* source is not read; and while a Ref::Slice is out the source is never
\* read again, the flag stays set and no reader is handed out.
C10_SliceWhileEof ==
    /\ [][(/\ handle.kind = "Reader"
           /\ ~handle.moved
           /\ source_eof
           /\ ret'.op \in {"borrow_mut", "from"}) =>
            /\ source' = source
            /\ ret'.op = "borrow_mut" => ref'.kind = "Slice"
            /\ ret'.op = "from" => input'.kind = "Slice"
            /\ ret'.bytes = SubSeq(source.data, 1, source.pos)
            /\ WellBehaved(source) => ret'.bytes = source.data]_vars
    /\ [][(handle.kind = "Reader" /\ ref.kind = "Slice") =>
            /\ source' = source
            /\ source_eof'
            /\ ref'.kind # "Reader"
            /\ input'.kind # "Reader"]_vars

\* The handle was converted to Input::Slice after at least two borrows.
C10_Witness ==
    /\ handle.kind = "Reader"
    /\ ret.op = "from"
    /\ input.kind = "Slice"
    /\ borrows >= 2
    /\ ref.kind = "None"
    /\ Len(input.b) >= 2

\* C22: reads of the chained Input deliver the captured bytes from byte 0
\* and only then bytes of the live source: while the FusedReader holds the
\* cursor the source stands where the capture left it and the bytes
\* delivered are the captured bytes up to the cursor's position; a read that
\* reaches the source leaves the cursor dropped and its buffer released, all
\* captured bytes having been delivered first; once dropped, the cursor stays
\* dropped.
C22_PrefixThenSource ==
    /\ [](input.reader = "chain" =>
            /\ Len(captured(Self)) > 0
            /\ input.fused =>
                /\ source.pos = Len(captured(Self))
                /\ ~input.done_first
                /\ input.cursor.vec = captured(Self)
                /\ out = SubSeq(captured(Self), 1, input.cursor.pos)
            /\ ~input.fused =>
                /\ input.cursor = NewCursor(<<>>)
                /\ IsPrefix(captured(Self), out)
                /\ out = SubSeq(source.data, 1, source.pos)
            /\ source.pos > Len(captured(Self)) => ~input.fused)
    /\ [][input.reader = "chain" =>
            /\ source' # source => ~input'.fused /\ input'.done_first
            /\ ~input.fused => ~input'.fused /\ input'.cursor = NewCursor(<<>>)]_vars

\* The chained Input delivered a captured byte and then the rest of the
\* stream from the live source.
C22_Witness ==
    /\ input.reader = "chain"
    /\ ~input.fused
    /\ captured(Self) = DATA(1)
    /\ out = DATA(MaxData)
    /\ source.data = DATA(MaxData)

(***************************************************************************)
(* Properties of the CaptureReader, checked under SpecCapture.             *)
(***************************************************************************)

\* C4: in every reachable state the captured prefix is exactly the bytes the
\* source has returned so far, in order from byte 0, also after calls that
\* failed part-way.
C4_CaptureFaithful == captured(Self) = SubSeq(source.data, 1, source.pos)

\* A capture_up_to_size that failed after the source had delivered bytes, on a
\* reader that had been read and rewound before.
C4_Witness ==
    /\ ret.op = "capture_up_to_size"
    /\ ret.res = "Err"
    /\ Len(seen) > 0
    /\ Len(captured(Self)) > Len(seen)

\* C5: the bytes a caller obtains on a pass agree, offset by offset, with
\* those every earlier pass obtained at the same offsets, whatever the buffer
\* sizes of the reads.
C5_ReplayIdentity == \A i \in 1..Len(obs) : obs[i] = seen[i]

\* C6: a rewind sets the position to 0 and changes nothing else, and a second
\* rewind changes nothing at all.
C6_RewindFrame ==
    /\ [](rewind(rewind(Self)) = rewind(Self))
    /\ [][ret'.op = "rewind" =>
            /\ prefix'.pos = 0
            /\ prefix'.vec = prefix.vec
            /\ source_eof' = source_eof
            /\ source' = source]_vars

\* A rewind of a reader that holds captured bytes, has replayed some of them
\* and has seen the source's EOF.
C6_Witness ==
    /\ ret.op = "rewind"
    /\ Len(captured(Self)) >= 2
    /\ Len(seen) >= 1
    /\ source_eof

\* C7: source_eof is set only if the source has returned 0 bytes to a
\* non-empty request (capture_to_end completes by such a return); it is false
\* initially, and capture_up_to_size sets it only when the source ran out
\* before the capture reached the requested size.
C7_EofSound ==
    /\ [](source_eof => source.everZero)
    /\ [][(ret'.op = "capture_up_to_size" /\ ~source_eof /\ source_eof') =>
            /\ Len(prefix'.vec) < ret'.arg
            /\ source'.zero]_vars

\* capture_up_to_size asked for more than the source held and set the flag.
C7_Witness ==
    /\ ret.op = "capture_up_to_size"
    /\ source_eof
    /\ Len(captured(Self)) < ret.arg
    /\ Len(captured(Self)) > 0

\* C8 as claimed: once set, source_eof is never reset to false.
C8_EofSticky == [][source_eof => source_eof']_vars

\* C8 as amended: source_eof is reset only by a read that obtains at least
\* one byte from the source; rewind, capture_to_end, capture_up_to_size and
\* reads that obtain nothing from the source leave it set.
C8_EofResetOnlyByRead ==
    [][(source_eof /\ ~source_eof') =>
        /\ ret'.op = "read"
        /\ ret'.res = "Ok"
        /\ source'.pos > source.pos]_vars

\* The flag is still set after capture_up_to_size took bytes from a source
\* that had returned 0 before.
C8_Witness ==
    /\ source_eof
    /\ ret.op = "capture_up_to_size"
    /\ ~source.zero
    /\ source.everZero

\* C18: a read whose buffer is empty, or whose buffer the unread part of the
\* captured prefix fills, returns the next buffer-length captured bytes
\* without reading the source and without changing the captured bytes or
\* source_eof; a zero-length read returns no byte.
C18_ReadNeedsSource ==
    [][ret'.op = "read" =>
        LET n == ret'.arg
            unread == captured_unread_size(Self)
        IN /\ (n = 0 \/ unread >= n) =>
                /\ ret'.res = "Ok"
                /\ ret'.bytes = SubSeq(prefix.vec, prefix.pos + 1, prefix.pos + n)
                /\ source' = source
                /\ prefix'.vec = prefix.vec
                /\ prefix'.pos = prefix.pos + n
                /\ source_eof' = source_eof
           /\ n = 0 => ret'.bytes = <<>> /\ prefix' = prefix]_vars

\* A zero-length read, made with every captured byte read and the source not
\* at its end, left source_eof false.
C18_Witness ==
    /\ ret = Call("read", 0, "Ok", "", <<>>)
    /\ captured_unread_size(Self) = 0
    /\ Len(captured(Self)) > 0
    /\ Remaining(source) > 0
    /\ ~source_eof

\* C19: capture_to_end never moves the replay position.  With source_eof set
\* it changes nothing and leaves the source alone.  Otherwise it appends to
\* the captured prefix every byte the source delivers until it returns 0 (for
\* a source that returns 0 only at its end: all the remaining bytes) and sets
\* source_eof; if the source fails first, the call fails and source_eof
\* stays false.
C19_CaptureToEnd ==
    [][ret'.op = "capture_to_end" =>
        /\ prefix'.pos = prefix.pos
        /\ source_eof =>
            /\ ret'.res = "Ok"
            /\ UNCHANGED <<prefix, source, source_eof>>
        /\ ~source_eof =>
            /\ prefix'.vec = prefix.vec \o SubSeq(source.data, source.pos + 1, source'.pos)
            /\ ret'.res = "Ok" =>
                /\ source_eof'
                /\ source'.zero
                /\ WellBehaved(source') => captured(Self)' = source.data
            /\ ret'.res = "Err" => ~source_eof']_vars

\* capture_to_end captured the rest of a source that had been read in part,
\* with the replay position in the middle of the capture.
C19_Witness ==
    /\ ret = Call("capture_to_end", 0, "Ok", "", <<>>)
    /\ source_eof
    /\ WellBehaved(source)
    /\ prefix.pos = 1
    /\ captured(Self) = DATA(MaxData)

\* C20: capture_up_to_size(n) never moves the replay position; with n or
\* more bytes captured it reads nothing; otherwise it appends what the
\* source delivers, at most n - len(capture) bytes, and on success either
\* the capture holds at least n bytes or source_eof is set; the call sets
\* source_eof exactly when the source returned 0 before n bytes were
\* captured, so that a fresh reader over a source of n or more bytes that
\* returns 0 only at its end is left with source_eof false and exactly n
\* bytes captured.
C20_CaptureUpToSize ==
    [][ret'.op = "capture_up_to_size" =>
        LET n == ret'.arg
            have == Len(prefix.vec)
        IN /\ prefix'.pos = prefix.pos
           /\ have >= n =>
                /\ ret'.res = "Ok"
                /\ UNCHANGED <<prefix, source, source_eof>>
           /\ have < n =>
                /\ source'.pos - source.pos <= n - have
                /\ prefix'.vec = prefix.vec \o SubSeq(source.data, source.pos + 1, source'.pos)
                /\ ret'.res = "Ok" =>
                    /\ Len(prefix'.vec) >= n \/ source_eof'
                    /\ source_eof' = (source_eof \/ Len(prefix'.vec) < n)
                    /\ Len(prefix'.vec) < n => source'.zero
                    /\ (have = 0 /\ ~source_eof /\ Len(source.data) >= n
                        /\ WellBehaved(source')) =>
                            ~source_eof' /\ captured(Self)' = DATA(n)
                /\ ret'.res = "Err" => source_eof' = source_eof]_vars

\* capture_up_to_size(n) on a fresh reader over a source of exactly n bytes.
C20_Witness ==
    /\ ret = Call("capture_up_to_size", MaxData, "Ok", "", <<>>)
    /\ source.data = DATA(MaxData)
    /\ captured(Self) = DATA(MaxData)
    /\ prefix.pos = 0
    /\ ~source_eof
    /\ source.errs = MaxErrs

\* C25: a read that returns an error leaves the replay position where it
\* was before the call, so a caller that retries still obtains every
\* captured byte of the pass.
C25_FailedReadKeepsPosition ==
    [][(ret'.op = "read" /\ ret'.res = "Err") =>
            /\ prefix'.pos = prefix.pos
            /\ prefix'.vec = prefix.vec]_vars

\* C28: the replay position lies within the captured prefix, so that
\* captured_unread_size does not underflow, and a read that obtains bytes
\* from the source finds the position at the end of the prefix and appends
\* them there, the position following; no operation removes or changes a
\* captured byte.
C28_PositionBound ==
    /\ [](/\ prefix.pos \in 0..Len(prefix.vec)
          /\ captured_unread_size(Self) = Len(prefix.vec) - prefix.pos
          /\ captured_unread_size(Self) >= 0)
    /\ [][/\ IsPrefix(prefix.vec, prefix'.vec)
          /\ (ret'.op = "read" /\ source' # source) =>
                /\ prefix'.pos = Len(prefix'.vec)
                /\ ret'.res = "Ok" =>
                    /\ prefix'.vec = prefix.vec
                            \o SubSeq(source.data, source.pos + 1, source'.pos)
                    /\ SubSeq(prefix.vec, prefix.pos + 1, Len(prefix.vec))
                            \o SubSeq(source.data, source.pos + 1, source'.pos)
                         = ret'.bytes]_vars

\* A read in the middle of a replay went on into the source: with one
\* captured byte unread it returned that byte and the next of the source,
\* which is now the last of the prefix.
C28_Witness ==
    /\ ret.op = "read"
    /\ ret.bytes = <<2, 3>>
    /\ prefix.vec = DATA(3)
    /\ prefix.pos = 3
    /\ Len(seen) = 3

====
